---------------------------- MODULE Spec2Model ----------------------------
(***************************************************************************)
(* Model of CrimeScope-Web/js/api_client.js: the ApiClient object with its *)
(* three async operations getStats, getTrend and getPrediction.            *)
(*                                                                         *)
(* Text (URLs, jurisdiction strings, response bodies) is a sequence of     *)
(* one-character strings, so that percent-encoding, query-string parsing   *)
(* and JSON decoding are computed character by character.                  *)
(***************************************************************************)
EXTENDS Integers, Sequences, FiniteSets, TLC

VARIABLES calls, net, requests, log

vars == <<calls, net, requests, log>>

(***************************************************************************)
(* Bounds of the model.                                                    *)
(***************************************************************************)
\* longest jurisdiction string drawn from StateAlphabet
MaxStateLen == 2
\* number of calls that may be in flight together under SpecConc
NumCalls == 2

(***************************************************************************)
(* Characters.                                                             *)
(***************************************************************************)
Digits == <<"0", "1", "2", "3", "4", "5", "6", "7", "8", "9">>

HexDigits == <<"0", "1", "2", "3", "4", "5", "6", "7", "8", "9",
               "A", "B", "C", "D", "E", "F">>

Letters == {"a", "b", "c", "d", "e", "f", "g", "h", "i", "j", "k", "l", "m",
            "n", "o", "p", "q", "r", "s", "t", "u", "v", "w", "x", "y", "z",
            "A", "B", "C", "D", "E", "F", "G", "H", "I", "J", "K", "L", "M",
            "N", "O", "P", "Q", "R", "S", "T", "U", "V", "W", "X", "Y", "Z"}

DigitChars == {Digits[i] : i \in 1..10}

\* one UTF-16 code unit in D800..DFFF that is not part of a surrogate pair
LoneSurrogate == "\\uD800"

\* the characters encodeURIComponent leaves as they are (ECMAScript
\* uriUnreserved: letters, decimal digits and - _ . ! ~ * ' ( ) )
UriUnreserved == Letters \cup DigitChars \cup
                 {"-", "_", ".", "!", "~", "*", "'", "(", ")"}

\* the characters encodeURI, unlike encodeURIComponent, also leaves alone
UriReserved == {";", "/", "?", ":", "@", "&", "=", "+", "$", ",", "#"}

\* code point of the ASCII characters that are percent-encoded
CharCode(c) ==
    CASE c = " "  -> 32
      [] c = "\"" -> 34
      [] c = "#"  -> 35
      [] c = "$"  -> 36
      [] c = "%"  -> 37
      [] c = "&"  -> 38
      [] c = "+"  -> 43
      [] c = ","  -> 44
      [] c = "/"  -> 47
      [] c = ":"  -> 58
      [] c = ";"  -> 59
      [] c = "<"  -> 60
      [] c = "="  -> 61
      [] c = ">"  -> 62
      [] c = "?"  -> 63
      [] c = "@"  -> 64

\* %XX, the escape of one UTF-8 octet
PercentEscape(code) ==
    <<"%", HexDigits[(code \div 16) + 1], HexDigits[(code % 16) + 1]>>

RECURSIVE EncodeFrom(_, _)
\* the encoding of s[i..Len(s)]: [ok, text]; a lone surrogate makes it fail
EncodeFrom(s, i) ==
    IF i > Len(s) THEN [ok |-> TRUE, text |-> <<>>]
    ELSE IF s[i] = LoneSurrogate THEN [ok |-> FALSE, text |-> <<>>]
    ELSE LET rest == EncodeFrom(s, i + 1)
             head == IF s[i] \in UriUnreserved THEN <<s[i]>>
                     ELSE PercentEscape(CharCode(s[i]))
         IN  IF rest.ok THEN [ok |-> TRUE, text |-> head \o rest.text]
             ELSE rest

RECURSIVE EncodeURIFrom(_, _)
\* encodeURI: like encodeURIComponent, but reserved characters are kept
EncodeURIFrom(s, i) ==
    IF i > Len(s) THEN [ok |-> TRUE, text |-> <<>>]
    ELSE IF s[i] = LoneSurrogate THEN [ok |-> FALSE, text |-> <<>>]
    ELSE LET rest == EncodeURIFrom(s, i + 1)
             head == IF s[i] \in UriUnreserved \cup UriReserved THEN <<s[i]>>
                     ELSE PercentEscape(CharCode(s[i]))
         IN  IF rest.ok THEN [ok |-> TRUE, text |-> head \o rest.text]
             ELSE rest

encodeURI(s) == EncodeURIFrom(s, 1)

\* encodeURIComponent(state): [ok, text]; ok = FALSE is a thrown URIError
encodeURIComponent(s) == EncodeFrom(s, 1)

RECURSIVE ToDigits(_)
\* String(n) of a non-negative integer, as a template literal interpolates it
ToDigits(n) ==
    IF n < 10 THEN <<Digits[n + 1]>>
    ELSE ToDigits(n \div 10) \o <<Digits[(n % 10) + 1]>>

(***************************************************************************)
(* URLs.                                                                   *)
(***************************************************************************)
\* 'http://127.0.0.1:5000/api'
API_URL == <<"h", "t", "t", "p", ":", "/", "/", "1", "2", "7", ".", "0", ".",
             "0", ".", "1", ":", "5", "0", "0", "0", "/", "a", "p", "i">>

StatsPath == <<"/", "s", "t", "a", "t", "s", "?", "s", "t", "a", "t", "e", "=">>

MinYearKey == <<"&", "m", "i", "n", "_", "y", "e", "a", "r", "=">>

MaxYearKey == <<"&", "m", "a", "x", "_", "y", "e", "a", "r", "=">>

TrendPath == <<"/", "c", "h", "a", "r", "t", "/", "t", "r", "e", "n", "d", "?",
               "s", "t", "a", "t", "e", "=">>

PredictPath == <<"/", "p", "r", "e", "d", "i", "c", "t", "?", "s", "t", "a",
                 "t", "e", "=">>

TargetYearKey == <<"&", "t", "a", "r", "g", "e", "t", "_", "y", "e", "a", "r", "=">>

\* the jurisdiction escaped with encodeURI, which keeps reserved characters
EncodedStateURI(state) == encodeURI(state)

\* the jurisdiction as it is interpolated into the URL
EncodedState(state) == encodeURIComponent(state)

\* the template literal of each operation: [ok, text]; ok = FALSE when
\* evaluating it throws
RequestUrl(op, state, y1, y2) ==
    LET enc == EncodedState(state)
    IN  IF ~enc.ok THEN enc
        ELSE [ok |-> TRUE,
              text |->
                CASE op = "getStats" ->
                       API_URL \o StatsPath \o enc.text \o MinYearKey
                       \o ToDigits(y1) \o MaxYearKey \o ToDigits(y2)
                  [] op = "getTrend" ->
                       API_URL \o TrendPath \o enc.text
                  [] op = "getPrediction" ->
                       API_URL \o PredictPath \o enc.text \o TargetYearKey
                       \o ToDigits(y1)]

(***************************************************************************)
(* JavaScript values and JSON decoding (response.json()).                  *)
(***************************************************************************)
NULL == [t |-> "null"]

UNDEFINED == [t |-> "undefined"]

JBool(b) == [t |-> "boolean", bool |-> b]

JNum(n) == [t |-> "number", num |-> n]

JStr(s) == [t |-> "string", str |-> s]

JArr(items) == [t |-> "array", items |-> items]

\* members: the own properties in insertion order, each [key, value]
JObj(members) == [t |-> "object", members |-> members]

ParseFail == [ok |-> FALSE, val |-> UNDEFINED, pos |-> 0]

ParseOk(v, next) == [ok |-> TRUE, val |-> v, pos |-> next]

\* does text s hold the literal lit at position i
MatchAt(s, i, lit) ==
    /\ i + Len(lit) - 1 <= Len(s)
    /\ SubSeq(s, i, i + Len(lit) - 1) = lit

RECURSIVE SkipWs(_, _)
\* first position at or after i that holds no JSON whitespace
SkipWs(s, i) ==
    IF i <= Len(s) /\ s[i] = " " THEN SkipWs(s, i + 1) ELSE i

RECURSIVE DigitsEnd(_, _)
\* first position at or after i that holds no decimal digit
DigitsEnd(s, i) ==
    IF i <= Len(s) /\ s[i] \in DigitChars THEN DigitsEnd(s, i + 1) ELSE i

DigitValue(c) == CHOOSE d \in 0..9 : Digits[d + 1] = c

RECURSIVE DecimalValue(_, _, _)
\* the number written by the digits s[i..j]
DecimalValue(s, i, j) ==
    IF j < i THEN 0
    ELSE 10 * DecimalValue(s, i, j - 1) + DigitValue(s[j])

\* a JSON number at i: an integer without sign, fraction or exponent; a
\* leading 0 ends the number
ParseNumber(s, i) ==
    LET e == IF s[i] = "0" THEN i + 1 ELSE DigitsEnd(s, i)
    IN  ParseOk(JNum(DecimalValue(s, i, e - 1)), e)

RECURSIVE StringEnd(_, _)
\* position of the quote closing a string whose content starts at i, or 0
StringEnd(s, i) ==
    IF i > Len(s) \/ s[i] = "\\" THEN 0
    ELSE IF s[i] = "\"" THEN i
    ELSE StringEnd(s, i + 1)

\* a JSON string at i (s[i] is the opening quote), without escapes
ParseString(s, i) ==
    LET e == StringEnd(s, i + 1)
    IN  IF e = 0 THEN ParseFail
        ELSE ParseOk(JStr(SubSeq(s, i + 1, e - 1)), e + 1)

\* obj[key] = value: an existing key keeps its place and takes the value
SetMember(members, key, value) ==
    IF \E k \in 1..Len(members) : members[k].key = key
    THEN [k \in 1..Len(members) |->
            IF members[k].key = key THEN [key |-> key, value |-> value]
            ELSE members[k]]
    ELSE Append(members, [key |-> key, value |-> value])

RECURSIVE ParseValue(_, _)
RECURSIVE ParseElements(_, _, _)
RECURSIVE ParseMembers(_, _, _)

\* the elements of an array after "[" or ",": value, then "," or "]"
ParseElements(s, i, acc) ==
    LET v == ParseValue(s, SkipWs(s, i))
    IN  IF ~v.ok THEN ParseFail
        ELSE LET j == SkipWs(s, v.pos)
             IN  IF j > Len(s) THEN ParseFail
                 ELSE IF s[j] = "]" THEN ParseOk(JArr(Append(acc, v.val)), j + 1)
                 ELSE IF s[j] = "," THEN ParseElements(s, j + 1, Append(acc, v.val))
                 ELSE ParseFail

\* the members of an object after "{" or ",": string ":" value, then "," or "}"
ParseMembers(s, i, acc) ==
    LET k == SkipWs(s, i)
    IN  IF k > Len(s) \/ s[k] # "\"" THEN ParseFail
        ELSE LET key == ParseString(s, k)
                 c   == IF key.ok THEN SkipWs(s, key.pos) ELSE 0
             IN  IF ~key.ok \/ c > Len(s) \/ s[c] # ":" THEN ParseFail
                 ELSE LET v == ParseValue(s, SkipWs(s, c + 1))
                          j == IF v.ok THEN SkipWs(s, v.pos) ELSE 0
                          m == SetMember(acc, key.val.str, v.val)
                      IN  IF ~v.ok \/ j > Len(s) THEN ParseFail
                          ELSE IF s[j] = "}" THEN ParseOk(JObj(m), j + 1)
                          ELSE IF s[j] = "," THEN ParseMembers(s, j + 1, m)
                          ELSE ParseFail

\* one JSON value starting at i
ParseValue(s, i) ==
    IF i > Len(s) THEN ParseFail
    ELSE IF MatchAt(s, i, <<"n", "u", "l", "l">>) THEN ParseOk(NULL, i + 4)
    ELSE IF MatchAt(s, i, <<"t", "r", "u", "e">>) THEN ParseOk(JBool(TRUE), i + 4)
    ELSE IF MatchAt(s, i, <<"f", "a", "l", "s", "e">>) THEN ParseOk(JBool(FALSE), i + 5)
    ELSE IF s[i] \in DigitChars THEN ParseNumber(s, i)
    ELSE IF s[i] = "\"" THEN ParseString(s, i)
    ELSE IF s[i] = "[" THEN
        LET j == SkipWs(s, i + 1)
        IN  IF j <= Len(s) /\ s[j] = "]" THEN ParseOk(JArr(<<>>), j + 1)
            ELSE ParseElements(s, i + 1, <<>>)
    ELSE IF s[i] = "{" THEN
        LET j == SkipWs(s, i + 1)
        IN  IF j <= Len(s) /\ s[j] = "}" THEN ParseOk(JObj(<<>>), j + 1)
            ELSE ParseMembers(s, i + 1, <<>>)
    ELSE ParseFail

\* JSON.parse of a whole body: [ok, val]; ok = FALSE is a SyntaxError
JsonParse(body) ==
    LET v == ParseValue(body, SkipWs(body, 1))
    IN  IF v.ok /\ SkipWs(body, v.pos) = Len(body) + 1
        THEN [ok |-> TRUE, val |-> v.val]
        ELSE [ok |-> FALSE, val |-> UNDEFINED]

(***************************************************************************)
(* Inputs: arguments of the calls and what the backend may answer.         *)
(***************************************************************************)
Ops == {"getStats", "getTrend", "getPrediction"}

\* default arguments of the operations
DefaultState == <<"a", "l", "l">>

DefaultMinYear == 2017

DefaultMaxYear == 2023

DefaultTargetYear == 2024

NewYork == <<"N", "e", "w", " ", "Y", "o", "r", "k">>

StateAlphabet == {"a", " ", "&", "=", "#", "%", LoneSurrogate}

RECURSIVE TextsUpTo(_, _)
\* every text of at most n characters of the alphabet
TextsUpTo(alphabet, n) ==
    IF n = 0 THEN {<<>>}
    ELSE LET shorter == TextsUpTo(alphabet, n - 1)
         IN  shorter \cup {Append(t, c) : t \in shorter, c \in alphabet}

StateInputs == TextsUpTo(StateAlphabet, MaxStateLen) \cup {DefaultState, NewYork}

\* the numeric arguments <<y1, y2>> of an operation; minYear <= maxYear is
\* not validated, so every pair is an input
YearInputs(op) ==
    CASE op = "getStats" ->
           {DefaultMinYear, DefaultMaxYear} \X {DefaultMinYear, DefaultMaxYear}
      [] op = "getTrend" -> {<<0, 0>>}
      [] op = "getPrediction" -> {DefaultTargetYear, DefaultTargetYear + 1} \X {0}

\* {"total":123}
BodyTotal == <<"{", "\"", "t", "o", "t", "a", "l", "\"", ":", "1", "2", "3", "}">>

\* {"year":2025,"predicted":4200}
BodyPrediction ==
    <<"{", "\"", "y", "e", "a", "r", "\"", ":", "2", "0", "2", "5", ",",
      "\"", "p", "r", "e", "d", "i", "c", "t", "e", "d", "\"", ":",
      "4", "2", "0", "0", "}">>

\* [2017, 2018]
BodySeries == <<"[", "2", "0", "1", "7", ",", " ", "2", "0", "1", "8", "]">>

BodyNull == <<"n", "u", "l", "l">>

BodyEmpty == <<>>

\* <html>
BodyHtml == <<"<", "h", "t", "m", "l", ">">>

\* {"total":            (a body cut short)
BodyTruncated == <<"{", "\"", "t", "o", "t", "a", "l", "\"", ":">>

Bodies == {BodyTotal, BodyPrediction, BodySeries, BodyNull, BodyEmpty,
           BodyHtml, BodyTruncated}

Statuses == {199, 200, 299, 300, 404}

NoExchange == [kind |-> "none"]

Pending == [kind |-> "pending"]

\* fetch rejects: connection refused, DNS failure, ...
TransportError == [kind |-> "error"]

Response(status, body) == [kind |-> "response", status |-> status, body |-> body]

Outcomes == {TransportError} \cup {Response(st, b) : st \in Statuses, b \in Bodies}

Settled(x) == x.kind \in {"error", "response"}

(***************************************************************************)
(* The calls.                                                              *)
(***************************************************************************)
CallIds == 1..NumCalls

IdleCall ==
    [pc |-> "idle", op |-> "none", state |-> <<>>, y1 |-> 0, y2 |-> 0,
     response |-> NoExchange, settled |-> "pending", result |-> UNDEFINED,
     suspensions |-> 0, decodes |-> 0]

\* the thrown values
URIError == [t |-> "error", name |-> "URIError", message |-> "URI malformed"]

FetchError == [t |-> "error", name |-> "TypeError", message |-> "Failed to fetch"]

SyntaxError == [t |-> "error", name |-> "SyntaxError", message |-> "Unexpected token"]

ApiError(op) ==
    [t |-> "error", name |-> "Error",
     message |-> CASE op = "getStats" -> "API Error fetching stats"
                   [] op = "getTrend" -> "API Error fetching trend data"
                   [] op = "getPrediction" -> "API Error fetching prediction"]

\* a status check that lets every response through
OkAlways(status) == TRUE

\* response.ok
Ok(status) == status >= 200 /\ status <= 299

\* every call awaits one shared pending promise
SharedExchange(i) == 1

\* the network exchange whose settlement resumes call i: the promise that
\* the call's own fetch(...) returned
Exchange(i) == i

\* the request is issued a second time
FetchTwice(sent, i, url) ==
    sent \o <<[call |-> i, url |-> url], [call |-> i, url |-> url]>>

\* fetch(url): one outbound GET request
Fetch(sent, i, url) == Append(sent, [call |-> i, url |-> url])

\* a catch block that logs nothing
ConsoleSilent(sink, i, error) == sink

\* console.error(error)
ConsoleError(sink, i, error) == Append(sink, [call |-> i, error |-> error])

\* catch (error) { ...; return error; }
CatchReturnsError(c, error) ==
    [c EXCEPT !.pc = "done", !.settled = "resolved", !.result = error]

\* catch (error) { ...; throw error; }
CatchRethrows(c, error) ==
    [c EXCEPT !.pc = "done", !.settled = "rejected", !.result = error]

\* catch (error) { ...; } without return null
CatchReturnsUndefined(c, error) ==
    [c EXCEPT !.pc = "done", !.settled = "resolved", !.result = UNDEFINED]

\* catch (error) { ...; return null; }
Catch(c, error) ==
    [c EXCEPT !.pc = "done", !.settled = "resolved", !.result = NULL]

\* await response.json() without return
ReturnNothing(c, value) ==
    [c EXCEPT !.pc = "done", !.settled = "resolved", !.result = UNDEFINED]

\* return await response.json(), once the body is decoded
Return(c, value) ==
    [c EXCEPT !.pc = "done", !.settled = "resolved", !.result = value]

\* await: the call yields to the scheduler
Await(c, at) == [c EXCEPT !.pc = at, !.suspensions = @ + 1]

\* getStats(state, minYear, maxYear), getTrend(state) or
\* getPrediction(state, targetYear) is called: the synchronous part, up to
\* await fetch(...)
Invoke(i, op, state, y1, y2) ==
    /\ calls[i].pc = "idle"
    /\ LET c   == [calls[i] EXCEPT !.op = op, !.state = state,
                                   !.y1 = y1, !.y2 = y2]
           url == RequestUrl(op, state, y1, y2)
       IN  IF ~url.ok
           THEN /\ calls' = [calls EXCEPT ![i] = Catch(c, URIError)]
                /\ log' = ConsoleError(log, i, URIError)
                /\ UNCHANGED <<net, requests>>
           ELSE /\ requests' = Fetch(requests, i, url.text)
                /\ net' = [net EXCEPT ![i] = Pending]
                /\ calls' = [calls EXCEPT ![i] = Await(c, "awaitFetch")]
                /\ UNCHANGED log

InvokeFrom(i, states, years) ==
    \E op \in Ops, state \in states :
        \E y \in years[op] : Invoke(i, op, state, y[1], y[2])

\* the backend answers exchange k, or the transport fails
Settle(k, outcomes) ==
    /\ net[k] = Pending
    /\ \E o \in outcomes : net' = [net EXCEPT ![k] = o]
    /\ UNCHANGED <<calls, requests, log>>

\* the call resumes after await fetch(...): const response = ...;
\* if (!response.ok) throw ...; response.json() is called and awaited
ResumeFetch(i) ==
    /\ calls[i].pc = "awaitFetch"
    /\ Settled(net[Exchange(i)])
    /\ LET c == calls[i]
           o == net[Exchange(i)]
       IN  IF o.kind = "error"
           THEN /\ calls' = [calls EXCEPT ![i] = Catch(c, FetchError)]
                /\ log' = ConsoleError(log, i, FetchError)
           ELSE LET r == [c EXCEPT !.response = o]
                IN  IF ~Ok(o.status)
                    THEN /\ calls' = [calls EXCEPT ![i] = Catch(r, ApiError(c.op))]
                         /\ log' = ConsoleError(log, i, ApiError(c.op))
                    ELSE /\ calls' = [calls EXCEPT ![i] =
                                Await([r EXCEPT !.decodes = @ + 1], "awaitJson")]
                         /\ UNCHANGED log
    /\ UNCHANGED <<net, requests>>

\* the call resumes after await response.json(): the decoded body is
\* returned, or the SyntaxError is caught
ResumeJson(i) ==
    /\ calls[i].pc = "awaitJson"
    /\ LET c == calls[i]
           p == JsonParse(c.response.body)
       IN  IF p.ok
           THEN /\ calls' = [calls EXCEPT ![i] = Return(c, p.val)]
                /\ UNCHANGED log
           ELSE /\ calls' = [calls EXCEPT ![i] = Catch(c, SyntaxError)]
                /\ log' = ConsoleError(log, i, SyntaxError)
    /\ UNCHANGED <<net, requests>>

Init ==
    /\ calls = [i \in CallIds |-> IdleCall]
    /\ net = [i \in CallIds |-> NoExchange]
    /\ requests = <<>>
    /\ log = <<>>

AllYears == [op \in Ops |-> YearInputs(op)]

\* one caller, one call, every input
Next ==
    \/ InvokeFrom(1, StateInputs, AllYears)
    \/ Settle(1, Outcomes)
    \/ ResumeFetch(1)
    \/ ResumeJson(1)

Spec == Init /\ [][Next]_vars

(***************************************************************************)
(* Concurrent calls: every call may be issued while others are in flight,  *)
(* and the exchanges settle in any order.                                  *)
(***************************************************************************)
ConcStates == {DefaultState, <<LoneSurrogate>>}

ConcYears ==
    [op \in Ops |->
        CASE op = "getStats" -> {<<DefaultMinYear, DefaultMaxYear>>}
          [] op = "getTrend" -> {<<0, 0>>}
          [] op = "getPrediction" -> {<<DefaultTargetYear, 0>>}]

ConcOutcomes ==
    {TransportError, Response(404, BodyTotal), Response(200, BodyTotal),
     Response(200, BodyNull), Response(200, BodyHtml)}

NextConc ==
    \E i \in CallIds :
        \/ InvokeFrom(i, ConcStates, ConcYears)
        \/ Settle(i, ConcOutcomes)
        \/ ResumeFetch(i)
        \/ ResumeJson(i)

SpecConc == Init /\ [][NextConc]_vars

(***************************************************************************)
(* What the properties speak of.                                           *)
(***************************************************************************)
Done(i) == calls[i].pc = "done"

\* error records call i wrote to the log sink
LogCount(i) == Cardinality({k \in 1..Len(log) : log[k].call = i})

\* outbound requests call i issued
SentCount(i) == Cardinality({k \in 1..Len(requests) : requests[k].call = i})

\* the jurisdiction cannot be percent-encoded
UrlThrows(i) == \E k \in 1..Len(calls[i].state) : calls[i].state[k] = LoneSurrogate

TransportFailed(i) == net[i] = TransportError

SuccessStatus(i) ==
    net[i].kind = "response" /\ net[i].status \in 200..299

BadStatus(i) ==
    net[i].kind = "response" /\ net[i].status \notin 200..299

ValidJson(i) == SuccessStatus(i) /\ JsonParse(net[i].body).ok

DecodeFailed(i) == SuccessStatus(i) /\ ~JsonParse(net[i].body).ok

FailurePath(i) ==
    UrlThrows(i) \/ TransportFailed(i) \/ BadStatus(i) \/ DecodeFailed(i)

Text_total == <<"t", "o", "t", "a", "l">>

Text_year == <<"y", "e", "a", "r">>

Text_predicted == <<"p", "r", "e", "d", "i", "c", "t", "e", "d">>

\* C1: every failure kind (transport failure, a status outside 200-299, a
\* status-200 body that is not JSON) makes the call resolve to null, the same
\* value for the three kinds.
C1_FailuresResolveToNull ==
    \A i \in CallIds :
        (Done(i) /\ (\/ TransportFailed(i)
                     \/ BadStatus(i)
                     \/ (DecodeFailed(i) /\ net[i].status = 200)))
        => (calls[i].settled = "resolved" /\ calls[i].result = NULL)

C1_Witness ==
    /\ Done(1)
    /\ net[1] = Response(200, BodyHtml)
    /\ calls[1].result = NULL

\* C2: no call rejects or throws to its caller: a call that completes has
\* resolved, also when building the URL or decoding the body raised an error.
C2_NeverRejects ==
    \A i \in CallIds :
        /\ calls[i].settled # "rejected"
        /\ Done(i) <=> calls[i].settled = "resolved"

C2_Witness ==
    /\ Done(1)
    /\ UrlThrows(1)
    /\ calls[1].settled = "resolved"

\* C3: a response with a status in 200-299 and a valid JSON body makes the
\* call resolve to exactly the decoded body; {"total":123} from getStats and
\* {"year":2025,"predicted":4200} from getPrediction come back as they are.
C3_SuccessReturnsBody ==
    \A i \in CallIds :
        (Done(i) /\ ~UrlThrows(i) /\ ValidJson(i)) =>
            /\ calls[i].settled = "resolved"
            /\ calls[i].result = JsonParse(net[i].body).val
            /\ net[i].body = BodyTotal =>
                 calls[i].result =
                    JObj(<<[key |-> Text_total, value |-> JNum(123)]>>)
            /\ net[i].body = BodyPrediction =>
                 calls[i].result =
                    JObj(<<[key |-> Text_year, value |-> JNum(2025)],
                           [key |-> Text_predicted, value |-> JNum(4200)]>>)

C3_Witness ==
    /\ Done(1)
    /\ calls[1].op = "getPrediction"
    /\ calls[1].y1 = 2025
    /\ net[1] = Response(200, BodyPrediction)
    /\ calls[1].result.t = "object"

\* C4 as claimed: every invocation issues exactly one outbound request,
\* whatever the input.
C4_ExactlyOneRequest ==
    \A i \in CallIds : calls[i].pc # "idle" => SentCount(i) = 1

\* C4 as amended: every invocation issues at most one outbound request; it
\* issues exactly one unless the jurisdiction cannot be percent-encoded, and
\* then none; no request is issued again after a failure.
C4_AtMostOneRequest ==
    \A i \in CallIds :
        /\ SentCount(i) <= 1
        /\ calls[i].pc = "idle" => SentCount(i) = 0
        /\ calls[i].pc # "idle" =>
             SentCount(i) = (IF UrlThrows(i) THEN 0 ELSE 1)

C4_Witness ==
    /\ Done(1)
    /\ TransportFailed(1)
    /\ SentCount(1) = 1

\* C5: a call that ends on a failure path has written exactly one error
\* record before it returns null; a call that ends on the success path, and a
\* call still in flight, has written none.
C5_OneLogPerFailure ==
    \A i \in CallIds :
        /\ ~Done(i) => LogCount(i) = 0
        /\ Done(i) => LogCount(i) = (IF FailurePath(i) THEN 1 ELSE 0)
        /\ (Done(i) /\ FailurePath(i)) => calls[i].result = NULL

C5_Witness ==
    /\ Done(1)
    /\ BadStatus(1)
    /\ LogCount(1) = 1

\* C6 as claimed: a finished call's result is null if and only if the call
\* logged an error.
C6_NullIffLogged ==
    \A i \in CallIds :
        Done(i) => (calls[i].result = NULL <=> LogCount(i) > 0)

\* C6 as amended: a finished call that logged an error resolved to null; a
\* finished call that resolved to null logged an error, unless the backend
\* answered a success status with the JSON body null, which is returned as
\* it is and logs nothing.
C6_NullLoggedOrJsonNull ==
    \A i \in CallIds :
        Done(i) =>
            /\ LogCount(i) > 0 => calls[i].result = NULL
            /\ (calls[i].result = NULL /\ LogCount(i) = 0) <=>
                 (~UrlThrows(i) /\ ValidJson(i)
                  /\ JsonParse(net[i].body).val = NULL)

C6_Witness ==
    /\ Done(1)
    /\ net[1] = Response(200, BodyNull)
    /\ calls[1].result = NULL
    /\ LogCount(1) = 0

(***************************************************************************)
(* The request as the backend reads it: the fragment is not transmitted,   *)
(* the query string is split at "&" and "=", and values are unescaped.     *)
(***************************************************************************)
RECURSIVE IndexFrom(_, _, _)
\* first position at or after i where text s holds character c, or 0
IndexFrom(s, c, i) ==
    IF i > Len(s) THEN 0
    ELSE IF s[i] = c THEN i
    ELSE IndexFrom(s, c, i + 1)

BeforeFirst(s, c) ==
    LET k == IndexFrom(s, c, 1)
    IN  IF k = 0 THEN s ELSE SubSeq(s, 1, k - 1)

AfterFirst(s, c) ==
    LET k == IndexFrom(s, c, 1)
    IN  IF k = 0 THEN <<>> ELSE SubSeq(s, k + 1, Len(s))

RECURSIVE SplitOn(_, _)
\* the pieces of s between occurrences of c
SplitOn(s, c) ==
    IF IndexFrom(s, c, 1) = 0 THEN <<s>>
    ELSE <<BeforeFirst(s, c)>> \o SplitOn(AfterFirst(s, c), c)

EscapedChars ==
    {" ", "\"", "#", "$", "%", "&", "+", ",", "/", ":", ";", "<", "=", ">",
     "?", "@"}

IsHex(c) == \E h \in 1..16 : HexDigits[h] = c

HexValue(c) == (CHOOSE h \in 1..16 : HexDigits[h] = c) - 1

\* the character a %XX escape stands for ("?" for a code outside the table)
Unescaped(hi, lo) ==
    LET code == 16 * HexValue(hi) + HexValue(lo)
    IN  IF \E c \in EscapedChars : CharCode(c) = code
        THEN CHOOSE c \in EscapedChars : CharCode(c) = code
        ELSE "?"

RECURSIVE PercentDecode(_, _)
\* s[i..Len(s)] with every %XX escape replaced by its character
PercentDecode(s, i) ==
    IF i > Len(s) THEN <<>>
    ELSE IF s[i] = "%" /\ i + 2 <= Len(s) /\ IsHex(s[i + 1]) /\ IsHex(s[i + 2])
         THEN <<Unescaped(s[i + 1], s[i + 2])>> \o PercentDecode(s, i + 3)
    ELSE <<s[i]>> \o PercentDecode(s, i + 1)

Transmitted(url) == BeforeFirst(url, "#")

PathOf(url) == BeforeFirst(Transmitted(url), "?")

RawQuery(url) == SplitOn(AfterFirst(Transmitted(url), "?"), "&")

\* the query parameters the backend receives, in order: [key, value]
ReceivedQuery(url) ==
    LET raw == RawQuery(url)
    IN  [k \in 1..Len(raw) |->
            [key   |-> BeforeFirst(raw[k], "="),
             value |-> PercentDecode(AfterFirst(raw[k], "="), 1)]]

Key_state == <<"s", "t", "a", "t", "e">>

Key_min_year == <<"m", "i", "n", "_", "y", "e", "a", "r">>

Key_max_year == <<"m", "a", "x", "_", "y", "e", "a", "r">>

Key_target_year == <<"t", "a", "r", "g", "e", "t", "_", "y", "e", "a", "r">>

\* the parameters the operation means to send
IntendedQuery(c) ==
    CASE c.op = "getStats" ->
           <<[key |-> Key_state, value |-> c.state],
             [key |-> Key_min_year, value |-> ToDigits(c.y1)],
             [key |-> Key_max_year, value |-> ToDigits(c.y2)]>>
      [] c.op = "getTrend" ->
           <<[key |-> Key_state, value |-> c.state]>>
      [] c.op = "getPrediction" ->
           <<[key |-> Key_state, value |-> c.state],
             [key |-> Key_target_year, value |-> ToDigits(c.y1)]>>

IntendedPath(c) ==
    CASE c.op = "getStats" -> API_URL \o <<"/", "s", "t", "a", "t", "s">>
      [] c.op = "getTrend" ->
           API_URL \o <<"/", "c", "h", "a", "r", "t", "/", "t", "r", "e", "n", "d">>
      [] c.op = "getPrediction" ->
           API_URL \o <<"/", "p", "r", "e", "d", "i", "c", "t">>

NewYorkEncoded == <<"N", "e", "w", "%", "2", "0", "Y", "o", "r", "k">>

\* C7: reserved characters of the jurisdiction are percent-encoded, so the
\* query string of every request carries exactly the operation's own keys,
\* the backend reads the jurisdiction back as it was passed and the year
\* parameters unaltered; "New York" is sent as New%20York.
C7_JurisdictionEncoded ==
    \A k \in 1..Len(requests) :
        LET c == calls[requests[k].call]
            url == requests[k].url
        IN  /\ PathOf(url) = IntendedPath(c)
            /\ ReceivedQuery(url) = IntendedQuery(c)
            /\ c.state = NewYork =>
                 AfterFirst(RawQuery(url)[1], "=") = NewYorkEncoded

C7_Witness ==
    /\ Len(requests) = 1
    /\ calls[1].op = "getStats"
    /\ calls[1].state = <<"&", "#">>
    /\ ReceivedQuery(requests[1].url)[1].value = <<"&", "#">>

\* C8: the body of a response whose status is outside 200-299 is never
\* decoded: a decode is attempted only once a success status was seen, and a
\* non-success status leads straight to the failure path.
C8_NoDecodeOnBadStatus ==
    \A i \in CallIds :
        /\ calls[i].decodes > 0 =>
             (net[i].kind = "response" /\ net[i].status \in 200..299)
        /\ calls[i].pc = "awaitJson" => calls[i].decodes = 1
        /\ BadStatus(i) =>
             (calls[i].decodes = 0 /\ calls[i].pc \in {"awaitFetch", "done"})
        /\ (BadStatus(i) /\ Done(i)) =>
             (calls[i].result = NULL /\ LogCount(i) = 1)

C8_Witness ==
    /\ Done(1)
    /\ net[1] = Response(404, BodyTotal)
    /\ calls[1].decodes = 0
    /\ calls[1].result = NULL

\* C9 as claimed: on every path on which a request was made (success,
\* non-success status, transport failure, decode failure) the call suspends
\* exactly once between invocation and resolution.
C9_SuspendsExactlyOnce ==
    \A i \in CallIds :
        (Done(i) /\ ~UrlThrows(i)) => calls[i].suspensions = 1

\* C9 as amended: a call suspends once at the network request; on a success
\* status it suspends a second time while the body is read and decoded, so
\* the success and decode-failure paths suspend twice and the transport
\* failure and non-success status paths once; a call whose URL cannot be
\* built does not suspend at all.
C9_SuspensionsPerPath ==
    \A i \in CallIds :
        /\ calls[i].pc = "awaitFetch" => calls[i].suspensions = 1
        /\ calls[i].pc = "awaitJson" => calls[i].suspensions = 2
        /\ Done(i) =>
             calls[i].suspensions =
                (IF UrlThrows(i) THEN 0
                 ELSE IF TransportFailed(i) \/ BadStatus(i) THEN 1
                 ELSE 2)

C9_Witness ==
    /\ Done(1)
    /\ net[1] = Response(200, BodyTotal)
    /\ calls[1].suspensions = 2

\* what a call resolves to, from its own arguments and the answer to its
\* own request
OwnResult(i) ==
    IF ~UrlThrows(i) /\ ValidJson(i) THEN JsonParse(net[i].body).val ELSE NULL

\* C10: calls in flight together are independent: whatever the order in
\* which the answers arrive, a finished call resolved to the value its own
\* request's answer determines, every request went to the one base URL, and
\* a step of one call leaves the other calls and their exchanges as they were.
C10_CallsIndependent ==
    /\ [](\A i \in CallIds :
            /\ Done(i) =>
                 /\ UrlThrows(i) \/ Settled(net[i])
                 /\ calls[i].settled = "resolved"
                 /\ calls[i].result = OwnResult(i)
            /\ calls[i].pc = "awaitJson" => calls[i].response = net[i])
    /\ [](\A k \in 1..Len(requests) :
            SubSeq(requests[k].url, 1, Len(API_URL)) = API_URL)
    /\ [][\A i \in CallIds :
            calls'[i] # calls[i] =>
                \A j \in CallIds \ {i} :
                    calls'[j] = calls[j] /\ net'[j] = net[j]]_vars

C10_Witness ==
    /\ Len(requests) = 2
    /\ requests[1].call = 2
    /\ Done(1) /\ net[1] = Response(200, BodyTotal)
    /\ calls[1].result = JObj(<<[key |-> Text_total, value |-> JNum(123)]>>)
    /\ Done(2) /\ net[2] = TransportError
    /\ calls[2].result = NULL
    /\ log = <<[call |-> 2, error |-> FetchError]>>
=============================================================================
